---- MODULE Spec2Model ----
(***************************************************************************)
(* Model of the LwM2M object instance manager of lcz_lwm2m_util.c: the     *)
(* per gateway-instance node lists, the three-state creation state of each *)
(* node, the agent registry and the gateway-deleted callback.              *)
(*                                                                         *)
(* Spec      every public operation is one step (each runs under the       *)
(*           mutex from its first to its last table access); the callback  *)
(*           of the gateway, which tests before it takes the mutex and     *)
(*           notifies after it released it, is one step for each part.     *)
(* SpecReuse Spec with a gateway that gives an index a new instance while  *)
(*           the node list of the former one is still attached.            *)
(* SpecConc  the same operations split at their mutex operations, run by   *)
(*           several threads.                                              *)
(* SpecDispatch  Spec with lcz_lwm2m_util_create_obj_inst and agents of    *)
(*           every combination of callbacks.                               *)
(* SpecFrame Spec with gateway instances whose instance ranges overlap.    *)
(* SpecEngine  Spec together with the object instances of the LwM2M        *)
(*           engine, which the server may delete.                          *)
(* SpecLive  the threads of SpecConc, waiting in k_mutex_lock made a place *)
(*           of its own, under a fair scheduler.                           *)
(***************************************************************************)
EXTENDS Integers, Naturals, Sequences, FiniteSets, TLC

\* ------------------------------------------------------------------------
\* Program constants
\* ------------------------------------------------------------------------
\* CONFIG_LCZ_LWM2M_UTIL_MAX_NODES: nodes per gateway object instance
MAX_NODES == 2
\* CONFIG_LWM2M_GATEWAY_MAX_INSTANCES: gateway object instances
MAX_INSTANCES == 2

\* enum lwm2m_create_state
CREATE_ALLOW == 0
CREATE_OK == 1
CREATE_FAIL == 2

\* errno values used by the file
EPERM == 1
ENOENT == 2
EIO == 5
ENOMEM == 12
EEXIST == 17
EINVAL == 22

\* a NULL pointer: no node found (nodes are 1..MAX_NODES), no telemetry data
\* attached (&utl.node_list[idx] is idx + 1)
NULL == 0

\* CONFIG_LCZ_LWM2M_GATEWAY_OBJ_LEGACY_INST_OFFSET: the instances below it are
\* those of the gateway
LEGACY_INST_OFFSET == 2

\* ------------------------------------------------------------------------
\* Bounds of the model
\* ------------------------------------------------------------------------
\* number of agents that register
MaxAgents == 1

\* the threads of SpecConc
Threads == {1, 2}
\* the sensors the callers manage, as (type, idx, offset): the device at index 0
\* has two sensors of type 0 and one of type 1, the device at index 1 one of type 1
Sensors == {<<0, 0, 0>>, <<0, 0, 1>>, <<1, 0, 0>>, <<1, 1, 0>>}
\* the object types the callers pass
Types == {s[1] : s \in Sensors}
\* gateway table indexes
Idx == 0..(MAX_INSTANCES - 1)
Slots == 1..MAX_NODES
\* base instance ids the gateway hands out: the smallest and the largest
BaseIds == {0, 65535}
\* instance ids a caller acknowledges as deleted
AckInstances == {0, 1, 65535}
\* results of lwm2m_engine_create_obj_inst
EngineResults == {0, -ENOMEM}
\* results of lcz_lwm2m_gw_obj_set_telem_data
SetDataResults == {0, -EINVAL}
\* results an agent's create callback returns
CbResults == {0, -EIO, 1}
\* statuses passed to lcz_lwm2m_util_manage_obj_deletion
Statuses == {0, -ENOENT, -EEXIST}
\* the agents that exist in the application
AgentPool ==
    { [type |-> 1, create |-> TRUE, gw_obj_deleted |-> FALSE],
      [type |-> 0, create |-> FALSE, gw_obj_deleted |-> TRUE] }

\* the agents that exist in the application under SpecDispatch, and the number
\* of them that register
AgentPoolDispatch ==
    AgentPool \cup { [type |-> 1, create |-> TRUE, gw_obj_deleted |-> TRUE],
                     [type |-> 1, create |-> FALSE, gw_obj_deleted |-> FALSE] }
MaxAgentsDispatch == 3
\* the instances passed to lcz_lwm2m_util_create_obj_inst
CreateInstances == {0, 1, 2, 3, 65535}

\* a uint16_t parameter or field
U16(x) == x % 65536

VARIABLES
    node_list,    \* utl.node_list[MAX_INSTANCES]
    obj_agents,   \* utl.obj_agents, in registration order
    gw_inst,      \* gateway table: idx -> base instance id, negative if none
    gw_data,      \* gateway table: idx -> attached telemetry data (NULL or node list)
    last          \* the operation that ran last: its kind, index, status, return
                  \* value, number of engine calls, number of nodes it reset,
                  \* number of those in the lists of other indexes, and the
                  \* agents whose create and gw_obj_deleted callbacks it called
VARIABLES
    mutex,        \* utl.mutex: the thread that holds it, 0 if free
    pc,           \* the place of each thread in the operation it runs
    loc,          \* the arguments and local variables of each thread
    engine        \* the object instances of the LwM2M engine that manage calls
                  \* created: type, instance, the index and the result of the call

\* the variables of the threads of SpecConc
cvars == <<mutex, pc, loc>>

vars == <<node_list, obj_agents, gw_inst, gw_data, last, mutex, pc, loc, engine>>

\* ------------------------------------------------------------------------
\* Local functions
\* ------------------------------------------------------------------------
\* a struct node of the zeroed static storage
EmptyNode == [create_state |-> CREATE_ALLOW, type |-> 0, instance |-> 0]

\* a reset that leaves the type and the instance of the node
reset_node_state_only(node) == [node EXCEPT !.create_state = CREATE_ALLOW]

\* reset_node: the node it leaves
reset_node(node) == [create_state |-> CREATE_ALLOW, type |-> 0, instance |-> 0]

\* a search that starts at the second node
find_node_from_second(nl, type, instance) ==
    LET m == {i \in Slots \ {1} :
                 nl.node[i].type = type /\ nl.node[i].instance = instance}
    IN IF m = {} THEN NULL ELSE CHOOSE i \in m : \A k \in m : i <= k

\* find_node: first node whose type and instance match (the state is not looked at)
find_node(nl, type, instance) ==
    LET m == {i \in Slots : nl.node[i].type = type /\ nl.node[i].instance = instance}
    IN IF m = {} THEN NULL ELSE CHOOSE i \in m : \A k \in m : i <= k

\* a search that is left pointing at the last node when no node is free
find_unused_node_last(nl) ==
    LET m == {i \in Slots : nl.node[i].create_state = CREATE_ALLOW}
    IN IF m = {} THEN MAX_NODES ELSE CHOOSE i \in m : \A k \in m : i <= k

\* find_unused_node: first node in state CREATE_ALLOW
find_unused_node(nl) ==
    LET m == {i \in Slots : nl.node[i].create_state = CREATE_ALLOW}
    IN IF m = {} THEN NULL ELSE CHOOSE i \in m : \A k \in m : i <= k

\* a sweep that stops before the last list
allow_create_on_delete_short(lists, type) ==
    [j \in Idx |->
        [lists[j] EXCEPT !.node =
            [i \in Slots |->
                IF j < MAX_INSTANCES - 1
                   /\ lists[j].node[i].type = type
                   /\ lists[j].node[i].create_state = CREATE_FAIL
                THEN reset_node(lists[j].node[i]) ELSE lists[j].node[i]]]]

\* a sweep that resets the failed nodes of every type
allow_create_on_delete_any_type(lists, type) ==
    [j \in Idx |->
        [lists[j] EXCEPT !.node =
            [i \in Slots |->
                IF lists[j].node[i].create_state = CREATE_FAIL
                THEN reset_node(lists[j].node[i]) ELSE lists[j].node[i]]]]

\* allow_create_on_delete: reset every failed node of the type, in all lists
allow_create_on_delete(lists, type) ==
    [j \in Idx |->
        [lists[j] EXCEPT !.node =
            [i \in Slots |->
                IF lists[j].node[i].type = type
                   /\ lists[j].node[i].create_state = CREATE_FAIL
                THEN reset_node(lists[j].node[i]) ELSE lists[j].node[i]]]]

\* a scan that keeps the last agent that matches
creation_agent_last(agents, type) ==
    LET m == {k \in DOMAIN agents : agents[k].type = type /\ agents[k].create}
    IN IF m = {} THEN 0 ELSE CHOOSE k \in m : \A q \in m : k >= q

\* creation_callback: index of the agent whose create callback runs, 0 if none
creation_agent(agents, type) ==
    LET m == {k \in DOMAIN agents : agents[k].type = type /\ agents[k].create}
    IN IF m = {} THEN 0 ELSE CHOOSE k \in m : \A q \in m : k <= q

\* a scan that keeps the last agent that has the callback
gw_obj_deleted_agent_last(agents) ==
    LET m == {k \in DOMAIN agents : agents[k].gw_obj_deleted}
    IN IF m = {} THEN 0 ELSE CHOOSE k \in m : \A q \in m : k >= q

\* gw_obj_deleted_handler: index of the agent whose gw_obj_deleted callback runs
gw_obj_deleted_agent(agents) ==
    LET m == {k \in DOMAIN agents : agents[k].gw_obj_deleted}
    IN IF m = {} THEN 0 ELSE CHOOSE k \in m : \A q \in m : k <= q

\* create_obj_inst: er is the engine's result, cr the result of the agent's callback
create_obj_inst(agents, idx, type, instance, er, cr) ==
    LET a == creation_agent(agents, type) IN
    IF er < 0
    THEN [r |-> er, creates |-> <<<<type, instance>>>>, cbs |-> <<>>]
    ELSE IF a = 0
    THEN [r |-> 0, creates |-> <<<<type, instance>>>>, cbs |-> <<>>]
    ELSE [r |-> cr, creates |-> <<<<type, instance>>>>,
          cbs |-> <<<<a, idx, type, instance>>>>]

\* a test of the reserved range that also rejects its upper end
lcz_lwm2m_util_create_obj_inst_le(agents, type, instance, er, cr) ==
    IF instance <= LEGACY_INST_OFFSET
    THEN [r |-> -EINVAL, creates |-> <<>>, cbs |-> <<>>]
    ELSE create_obj_inst(agents, -1, type, instance, er, cr)

\* lcz_lwm2m_util_create_obj_inst, with CONFIG_LCZ_LWM2M_UTIL_MANAGE_OBJ_INST
lcz_lwm2m_util_create_obj_inst(agents, type, instance, er, cr) ==
    IF instance < LEGACY_INST_OFFSET
    THEN [r |-> -EINVAL, creates |-> <<>>, cbs |-> <<>>]
    ELSE create_obj_inst(agents, -1, type, instance, er, cr)

\* the result of an operation: the node lists and attached data it leaves, its
\* return value, and the engine calls and callbacks it made, in order
Out(lists, data, r, creates, cbs) ==
    [lists |-> lists, data |-> data, r |-> r, creates |-> creates, cbs |-> cbs]

\* a test that never reports a mismatch
base_instance_mismatch_never(nl, base_instance) == FALSE

\* the test of the attached node list against the resolved base instance
base_instance_mismatch(nl, base_instance) == nl.base_instance # base_instance

\* lcz_lwm2m_util_manage_obj_instance, the section between lock and unlock.
\* ginst, gdata: the gateway table; sr, er, cr: the results of set_telem_data,
\* of the engine's create and of the agent's create callback, if they are called
manage_obj_instance(lists, agents, ginst, gdata, type, idx, offset, sr, er, cr) ==
    LET r0 == ginst[idx]
        base_instance == r0
        instance == r0 + offset
        attached == gdata[idx]
        lists1 == IF attached = NULL
                  THEN [lists EXCEPT ![idx].base_instance = U16(base_instance)]
                  ELSE lists
        p == IF attached = NULL THEN idx + 1 ELSE attached
        data1 == IF attached = NULL THEN [gdata EXCEPT ![idx] = p] ELSE gdata
        nl == lists1[p - 1]
        found == find_node(nl, type, U16(instance))
        node == IF found # NULL THEN found ELSE find_unused_node(nl)
        c == create_obj_inst(agents, idx, type, U16(instance), er, cr)
        lists2 == [lists1 EXCEPT ![p - 1].node[node] =
                      [create_state |-> IF c.r = 0 THEN CREATE_OK ELSE CREATE_FAIL,
                       type |-> type, instance |-> U16(instance)]]
    IN
    IF r0 < 0 THEN Out(lists, gdata, r0, <<>>, <<>>)
    ELSE IF attached = NULL /\ sr < 0 THEN Out(lists1, gdata, sr, <<>>, <<>>)
    ELSE IF attached # NULL /\ base_instance_mismatch(nl, base_instance)
    THEN Out(lists, gdata, -EPERM, <<>>, <<>>)
    ELSE IF found # NULL /\ nl.node[found].create_state = CREATE_OK
    THEN Out(lists1, data1, instance, <<>>, <<>>)
    ELSE IF found # NULL /\ nl.node[found].create_state = CREATE_FAIL
    THEN Out(lists1, data1, -ENOMEM, <<>>, <<>>)
    ELSE IF node = NULL THEN Out(lists1, data1, -ENOMEM, <<>>, <<>>)
    ELSE Out(lists2, data1, IF c.r = 0 THEN instance ELSE c.r, c.creates, c.cbs)

\* a status test that lets only -ENOENT through
deletion_status_noent(status) == status = -ENOENT

\* the status test of lcz_lwm2m_util_manage_obj_deletion
deletion_status(status) == status = -EEXIST \/ status = -ENOENT

\* lcz_lwm2m_util_manage_obj_deletion
manage_obj_deletion(lists, gdata, status, type, idx, instance) ==
    LET p == gdata[idx]
        node == find_node(lists[p - 1], type, instance)
    IN
    IF ~deletion_status(status) THEN Out(lists, gdata, 0, <<>>, <<>>)
    ELSE IF p = NULL THEN Out(lists, gdata, -ENOENT, <<>>, <<>>)
    ELSE IF node = NULL THEN Out(lists, gdata, -ENOENT, <<>>, <<>>)
    ELSE Out([lists EXCEPT ![p - 1].node[node] = reset_node(lists[p - 1].node[node])],
             gdata, 0, <<>>, <<>>)

\* the checks of gateway_obj_deleted_callback made before it takes the mutex
deleted_callback_checks(lists, ginst, idx, data_ptr) ==
    /\ ginst[idx] >= 0
    /\ data_ptr # NULL
    /\ ~base_instance_mismatch(lists[data_ptr - 1], ginst[idx])

\* a loop that resets only the nodes it deletes
RECURSIVE delete_nodes_ok_only(_, _, _, _)
delete_nodes_ok_only(lists, j, i, deletes) ==
    IF i > MAX_NODES THEN [lists |-> lists, deletes |-> deletes]
    ELSE LET n == lists[j].node[i]
             ok == n.create_state = CREATE_OK
             lists1 == IF ok THEN allow_create_on_delete(lists, n.type) ELSE lists
             deletes1 == IF ok THEN Append(deletes, <<n.type, n.instance>>) ELSE deletes
         IN delete_nodes_ok_only(
               IF ok THEN [lists1 EXCEPT ![j].node[i] = reset_node(n)] ELSE lists1,
               j, i + 1, deletes1)

\* the loop of gateway_obj_deleted_callback from node i on: the node lists it
\* leaves and the engine delete calls it makes
RECURSIVE delete_nodes(_, _, _, _)
delete_nodes(lists, j, i, deletes) ==
    IF i > MAX_NODES THEN [lists |-> lists, deletes |-> deletes]
    ELSE LET n == lists[j].node[i]
             ok == n.create_state = CREATE_OK
             lists1 == IF ok THEN allow_create_on_delete(lists, n.type) ELSE lists
             deletes1 == IF ok THEN Append(deletes, <<n.type, n.instance>>) ELSE deletes
         IN delete_nodes([lists1 EXCEPT ![j].node[i] = reset_node(lists1[j].node[i])],
                         j, i + 1, deletes1)

\* gateway_obj_deleted_callback: the lists it leaves, the engine deletes it makes,
\* and the agent whose gw_obj_deleted callback it calls (0 if none)
gateway_obj_deleted_callback(lists, agents, ginst, idx, data_ptr) ==
    IF ~deleted_callback_checks(lists, ginst, idx, data_ptr)
    THEN [lists |-> lists, deletes |-> <<>>, notify |-> 0, passed |-> FALSE]
    ELSE LET d == delete_nodes(lists, data_ptr - 1, 1, <<>>)
         IN [lists |-> d.lists, deletes |-> d.deletes,
             notify |-> gw_obj_deleted_agent(agents), passed |-> TRUE]

\* ------------------------------------------------------------------------
\* Initial state: static storage is zeroed, no agent is registered, the gateway
\* table has no instance and no data
\* ------------------------------------------------------------------------
NoOp ==
    [op |-> "init", idx |-> 0, status |-> 0, ret |-> 0, calls |-> 0, resets |-> 0,
     swept |-> 0, cb |-> 0, notify |-> 0]

\* the nodes in use in lists that are CREATE_ALLOW in after
ResetNodes(lists, after) ==
    {n \in Idx \X Slots :
        /\ lists[n[1]].node[n[2]].create_state # CREATE_ALLOW
        /\ after[n[1]].node[n[2]].create_state = CREATE_ALLOW}

\* a thread that runs no operation
NoLocals == [type |-> 0, idx |-> 0, arg |-> 0, status |-> 0, data_ptr |-> NULL]

Init ==
    /\ node_list = [j \in Idx |->
                       [base_instance |-> 0, node |-> [i \in Slots |-> EmptyNode]]]
    /\ obj_agents = <<>>
    /\ gw_inst = [j \in Idx |-> -ENOENT]
    /\ gw_data = [j \in Idx |-> NULL]
    /\ last = NoOp
    /\ mutex = 0
    /\ pc = [t \in Threads |-> "idle"]
    /\ loc = [t \in Threads |-> NoLocals]
    /\ engine = {}

\* ------------------------------------------------------------------------
\* Operations, each as one step
\* ------------------------------------------------------------------------
\* lcz_lwm2m_util_register_agent
RegisterAgent(agent) ==
    /\ Len(obj_agents) < MaxAgents
    /\ \A k \in DOMAIN obj_agents : obj_agents[k] # agent
    /\ obj_agents' = Append(obj_agents, agent)
    /\ last' = [NoOp EXCEPT !.op = "register"]
    /\ UNCHANGED <<node_list, gw_inst, gw_data>>
    /\ UNCHANGED cvars

\* a manage call succeeded: it returned the instance and the node is CREATE_OK
ManageSucceeded(lists, ginst, gdata, type, idx, offset, r) ==
    /\ ginst[idx] >= 0
    /\ r = ginst[idx] + offset
    /\ gdata[idx] # NULL
    /\ \E i \in Slots :
          LET n == lists[gdata[idx] - 1].node[i]
          IN n.create_state = CREATE_OK /\ n.type = type /\ n.instance = U16(r)

\* lcz_lwm2m_util_manage_obj_instance
ManageObjInstance(type, idx, offset, sr, er, cr) ==
    LET o == manage_obj_instance(node_list, obj_agents, gw_inst, gw_data,
                                 type, idx, offset, sr, er, cr)
    IN
    /\ node_list' = o.lists
    /\ gw_data' = o.data
    /\ last' = [NoOp EXCEPT !.op = "manage", !.idx = idx, !.ret = o.r,
                            !.calls = Len(o.creates)]
    /\ UNCHANGED <<obj_agents, gw_inst>>
    /\ UNCHANGED cvars

\* the results the collaborators can give a manage call: a result is drawn only
\* for a collaborator the call reaches
SetDataResultsOf(idx) ==
    IF gw_inst[idx] >= 0 /\ gw_data[idx] = NULL THEN SetDataResults ELSE {0}

EngineResultsOf(type, idx, offset, sr) ==
    IF manage_obj_instance(node_list, obj_agents, gw_inst, gw_data,
                           type, idx, offset, sr, 0, 0).creates # <<>>
    THEN EngineResults ELSE {0}

CbResultsOf(type, idx, offset, sr, er) ==
    IF manage_obj_instance(node_list, obj_agents, gw_inst, gw_data,
                           type, idx, offset, sr, er, 0).cbs # <<>>
    THEN CbResults ELSE {0}

\* lcz_lwm2m_util_manage_obj_deletion
ManageObjDeletion(status, type, idx, instance) ==
    LET o == manage_obj_deletion(node_list, gw_data, status, type, idx, instance)
    IN
    /\ node_list' = o.lists
    /\ last' = [NoOp EXCEPT !.op = "deletion", !.idx = idx, !.status = status,
                            !.ret = o.r,
                            !.resets = Cardinality(ResetNodes(node_list, o.lists))]
    /\ UNCHANGED <<obj_agents, gw_inst, gw_data>>
    /\ UNCHANGED cvars

\* ------------------------------------------------------------------------
\* The gateway object, the collaborator that owns the gateway table
\* ------------------------------------------------------------------------
Goto(t, label) == pc' = [pc EXCEPT ![t] = label]

\* the places of a thread inside gateway_obj_deleted_callback
CallbackPcs == {"cb_inst", "cb_base", "cb_lock", "cb_locked", "cb_unlock", "cb_notify"}

\* the gateway creates the object instance of a device at a free index, while
\* it runs no gateway_obj_deleted_callback for the index
GwObjCreate(idx, b) ==
    /\ gw_inst[idx] < 0
    /\ \A j \in Idx : gw_inst[j] # b
    /\ \A u \in Threads : pc[u] \notin CallbackPcs \/ loc[u].idx # idx
    /\ gw_inst' = [gw_inst EXCEPT ![idx] = b]
    /\ last' = [NoOp EXCEPT !.op = "gw_create", !.idx = idx]
    /\ UNCHANGED <<node_list, obj_agents, gw_data>>
    /\ UNCHANGED cvars

\* the gateway, having called gateway_obj_deleted_callback for the index, frees
\* the entry of its table
CbReturn(t) ==
    /\ Goto(t, "idle")
    /\ loc' = [loc EXCEPT ![t] = NoLocals]
    /\ gw_inst' = [gw_inst EXCEPT ![loc[t].idx] = -ENOENT]
    /\ gw_data' = [gw_data EXCEPT ![loc[t].idx] = NULL]

\* the gateway calls gateway_obj_deleted_callback with the data attached to the
\* index; it makes one call at a time for an index
CbEntry(t, idx) ==
    /\ pc[t] = "idle"
    /\ \A u \in Threads : pc[u] \notin CallbackPcs \/ loc[u].idx # idx
    /\ Goto(t, "cb_inst")
    /\ loc' = [loc EXCEPT ![t] = [NoLocals EXCEPT !.idx = idx,
                                                   !.data_ptr = gw_data[idx]]]
    /\ UNCHANGED <<node_list, obj_agents, gw_inst, gw_data, last, mutex>>

\* gateway_obj_deleted_callback: the tests of the resolved instance and of the
\* data pointer
CbInst(t) ==
    /\ pc[t] = "cb_inst"
    /\ IF gw_inst[loc[t].idx] < 0 \/ loc[t].data_ptr = NULL
       THEN CbReturn(t)
       ELSE /\ Goto(t, "cb_base")
            /\ loc' = [loc EXCEPT ![t].arg = gw_inst[loc[t].idx]]
            /\ UNCHANGED <<gw_inst, gw_data>>
    /\ UNCHANGED <<node_list, obj_agents, last, mutex>>

\* a handler that goes on to the mutex without the test
CbBase_no_test(t) ==
    /\ pc[t] = "cb_base"
    /\ Goto(t, "cb_lock")
    /\ UNCHANGED <<node_list, obj_agents, gw_inst, gw_data, last, mutex, loc>>

\* gateway_obj_deleted_callback: the test of node_list->base_instance, made
\* before the mutex is taken
CbBase(t) ==
    /\ pc[t] = "cb_base"
    /\ IF base_instance_mismatch(node_list[loc[t].data_ptr - 1], loc[t].arg)
       THEN CbReturn(t)
       ELSE Goto(t, "cb_lock") /\ UNCHANGED <<loc, gw_inst, gw_data>>
    /\ UNCHANGED <<node_list, obj_agents, last, mutex>>

\* the thread of the gateway where every operation of the manager is one step
GwThread == 1

\* gateway_obj_deleted_callback: k_mutex_lock, the loop over the nodes and
\* k_mutex_unlock, one step where every other operation is one step under the
\* mutex
GwObjDeletedLoop(t) ==
    LET j == loc[t].data_ptr - 1
        d == delete_nodes(node_list, j, 1, <<>>)
    IN
    /\ pc[t] = "cb_lock"
    /\ node_list' = d.lists
    /\ Goto(t, "cb_notify")
    /\ last' = [NoOp EXCEPT !.op = "gw_deleted", !.idx = loc[t].idx,
                            !.ret = 1,
                            !.calls = Len(d.deletes),
                            !.resets = Cardinality(ResetNodes(node_list, d.lists)),
                            !.swept = Cardinality(
                                {n \in ResetNodes(node_list, d.lists) : n[1] # j})]
    /\ UNCHANGED <<obj_agents, gw_inst, gw_data, mutex, loc>>

\* gateway_obj_deleted_callback: gw_obj_deleted_handler and return, after which
\* the gateway frees the entry
GwObjDeletedNotify(t) ==
    /\ pc[t] = "cb_notify"
    /\ CbReturn(t)
    /\ last' = [NoOp EXCEPT !.op = "gw_notified", !.idx = loc[t].idx,
                            !.ret = 1,
                            !.notify = gw_obj_deleted_agent(obj_agents)]
    /\ UNCHANGED <<node_list, obj_agents, mutex>>

\* the sensors managed and the indexes used under Spec
SensorsSpec == {s \in Sensors : s[2] = 0}
IdxSpec == {0}

Next ==
    \/ \E a \in AgentPool : RegisterAgent(a) /\ UNCHANGED engine
    \/ \E s \in SensorsSpec :
          \E sr \in SetDataResultsOf(s[2]) :
             \E er \in EngineResultsOf(s[1], s[2], s[3], sr) :
                \E cr \in CbResultsOf(s[1], s[2], s[3], sr, er) :
                   ManageObjInstance(s[1], s[2], s[3], sr, er, cr) /\ UNCHANGED engine
    \/ \E status \in Statuses, type \in Types, idx \in IdxSpec,
          instance \in AckInstances :
             ManageObjDeletion(status, type, idx, instance) /\ UNCHANGED engine
    \/ \E idx \in IdxSpec : CbEntry(GwThread, idx) /\ UNCHANGED engine
    \/ CbInst(GwThread) /\ UNCHANGED engine
    \/ CbBase(GwThread) /\ UNCHANGED engine
    \/ GwObjDeletedLoop(GwThread) /\ UNCHANGED engine
    \/ GwObjDeletedNotify(GwThread) /\ UNCHANGED engine
    \/ \E idx \in IdxSpec, b \in BaseIds : GwObjCreate(idx, b) /\ UNCHANGED engine

Spec == Init /\ [][Next]_vars

\* the gateway gives the index of a device to another device without clearing
\* the attached data (the case the base instance test exists for), while it runs
\* no gateway_obj_deleted_callback for the index
GwObjReuse(idx, b) ==
    /\ gw_inst[idx] >= 0
    /\ \A j \in Idx : gw_inst[j] # b
    /\ \A u \in Threads : pc[u] \notin CallbackPcs \/ loc[u].idx # idx
    /\ gw_inst' = [gw_inst EXCEPT ![idx] = b]
    /\ last' = [NoOp EXCEPT !.op = "gw_reuse", !.idx = idx]
    /\ UNCHANGED <<node_list, obj_agents, gw_data>>
    /\ UNCHANGED cvars

\* the sensors managed and the indexes used under SpecReuse
SensorsReuse == {s \in Sensors : s[2] = 0}
IdxReuse == {0}

NextReuse ==
    \/ \E a \in AgentPool : RegisterAgent(a) /\ UNCHANGED engine
    \/ \E s \in SensorsReuse :
          \E sr \in SetDataResultsOf(s[2]) :
             \E er \in EngineResultsOf(s[1], s[2], s[3], sr) :
                \E cr \in CbResultsOf(s[1], s[2], s[3], sr, er) :
                   ManageObjInstance(s[1], s[2], s[3], sr, er, cr) /\ UNCHANGED engine
    \/ \E idx \in IdxReuse : CbEntry(GwThread, idx) /\ UNCHANGED engine
    \/ CbInst(GwThread) /\ UNCHANGED engine
    \/ CbBase(GwThread) /\ UNCHANGED engine
    \/ GwObjDeletedLoop(GwThread) /\ UNCHANGED engine
    \/ GwObjDeletedNotify(GwThread) /\ UNCHANGED engine
    \/ \E idx \in IdxReuse, b \in BaseIds : GwObjCreate(idx, b) /\ UNCHANGED engine
    \/ \E idx \in IdxReuse, b \in BaseIds : GwObjReuse(idx, b) /\ UNCHANGED engine

\* the operations with a gateway that reuses indexes
SpecReuse == Init /\ [][NextReuse]_vars


\* ------------------------------------------------------------------------
\* The operations with several agents registered, and the unmanaged create
\* ------------------------------------------------------------------------
\* lcz_lwm2m_util_register_agent, for the agents of SpecDispatch
RegisterAgentDispatch(agent) ==
    /\ Len(obj_agents) < MaxAgentsDispatch
    /\ \A k \in DOMAIN obj_agents : obj_agents[k] # agent
    /\ obj_agents' = Append(obj_agents, agent)
    /\ last' = [NoOp EXCEPT !.op = "register"]
    /\ UNCHANGED <<node_list, gw_inst, gw_data>>
    /\ UNCHANGED cvars

\* lcz_lwm2m_util_create_obj_inst
CreateObjInst(type, instance, er, cr) ==
    LET c == lcz_lwm2m_util_create_obj_inst(obj_agents, type, instance, er, cr)
    IN
    /\ last' = [NoOp EXCEPT !.op = "create", !.idx = -1, !.ret = c.r,
                            !.calls = Len(c.creates),
                            !.cb = IF c.cbs = <<>> THEN 0 ELSE c.cbs[1][1]]
    /\ UNCHANGED <<node_list, obj_agents, gw_inst, gw_data>>
    /\ UNCHANGED cvars

\* the results the collaborators can give an unmanaged create
EngineResultsOfCreate(type, instance) ==
    IF lcz_lwm2m_util_create_obj_inst(obj_agents, type, instance, 0, 0).creates # <<>>
    THEN EngineResults ELSE {0}

CbResultsOfCreate(type, instance, er) ==
    IF lcz_lwm2m_util_create_obj_inst(obj_agents, type, instance, er, 0).cbs # <<>>
    THEN CbResults ELSE {0}

\* the sensors managed, the index and the base instance used under SpecDispatch
SensorsDispatch == {<<0, 0, 0>>, <<1, 0, 0>>}
IdxDispatch == {0}
BaseIdsDispatch == {0}

NextDispatch ==
    \/ \E a \in AgentPoolDispatch : RegisterAgentDispatch(a) /\ UNCHANGED engine
    \/ \E type \in Types, instance \in CreateInstances :
          \E er \in EngineResultsOfCreate(type, instance) :
             \E cr \in CbResultsOfCreate(type, instance, er) :
                CreateObjInst(type, instance, er, cr) /\ UNCHANGED engine
    \/ \E s \in SensorsDispatch :
          \E sr \in SetDataResultsOf(s[2]) :
             \E er \in EngineResultsOf(s[1], s[2], s[3], sr) :
                \E cr \in CbResultsOf(s[1], s[2], s[3], sr, er) :
                   ManageObjInstance(s[1], s[2], s[3], sr, er, cr) /\ UNCHANGED engine
    \/ \E idx \in IdxDispatch : CbEntry(GwThread, idx) /\ UNCHANGED engine
    \/ CbInst(GwThread) /\ UNCHANGED engine
    \/ CbBase(GwThread) /\ UNCHANGED engine
    \/ GwObjDeletedLoop(GwThread) /\ UNCHANGED engine
    \/ GwObjDeletedNotify(GwThread) /\ UNCHANGED engine
    \/ \E idx \in IdxDispatch, b \in BaseIdsDispatch : GwObjCreate(idx, b)
       /\ UNCHANGED engine

SpecDispatch == Init /\ [][NextDispatch]_vars

\* ------------------------------------------------------------------------
\* The operations on two devices whose instance ranges overlap
\* ------------------------------------------------------------------------
\* the sensors managed and the base instances handed out under SpecFrame: the
\* second sensor of type 0 of the device at index 0 and the first one of the
\* device at index 1 get the same instance when the bases are 0 and 1
SensorsFrame == {<<0, 0, 0>>, <<0, 0, 1>>, <<0, 1, 0>>, <<1, 1, 0>>}
\* the base instance of the device the gateway has at an index under SpecFrame
BaseIdFrame(idx) == idx

NextFrame ==
    \/ \E s \in SensorsFrame :
          \E sr \in SetDataResultsOf(s[2]) :
             \E er \in EngineResultsOf(s[1], s[2], s[3], sr) :
                \E cr \in CbResultsOf(s[1], s[2], s[3], sr, er) :
                   ManageObjInstance(s[1], s[2], s[3], sr, er, cr) /\ UNCHANGED engine
    \/ \E idx \in Idx : CbEntry(GwThread, idx) /\ UNCHANGED engine
    \/ CbInst(GwThread) /\ UNCHANGED engine
    \/ CbBase(GwThread) /\ UNCHANGED engine
    \/ GwObjDeletedLoop(GwThread) /\ UNCHANGED engine
    \/ GwObjDeletedNotify(GwThread) /\ UNCHANGED engine
    \/ \E idx \in Idx : GwObjCreate(idx, BaseIdFrame(idx)) /\ UNCHANGED engine

SpecFrame == Init /\ [][NextFrame]_vars

\* ------------------------------------------------------------------------
\* The operations with the object instances of the LwM2M engine
\* ------------------------------------------------------------------------
\* the sensors managed, the index and the base instance used under SpecEngine
SensorsEngine == {s \in Sensors : s[2] = 0}
IdxEngine == {0}
BaseIdsEngine == {0}
\* the instances a caller acknowledges as deleted under SpecEngine
AckInstancesEngine == {0, 1}

\* the instances of the engine at a path
AtPath(type, instance) == {e \in engine : e.type = type /\ e.instance = instance}

\* lcz_lwm2m_util_manage_obj_instance; lwm2m_engine_create_obj_inst, when it
\* succeeds, leaves the instance in the engine whatever the callback returns
ManageObjInstanceEngine(type, idx, offset, sr, er, cr) ==
    LET o == manage_obj_instance(node_list, obj_agents, gw_inst, gw_data,
                                 type, idx, offset, sr, er, cr)
        instance == U16(gw_inst[idx] + offset)
        c == create_obj_inst(obj_agents, idx, type, instance, er, cr)
    IN
    /\ ManageObjInstance(type, idx, offset, sr, er, cr)
    /\ engine' = IF o.creates # <<>> /\ er >= 0
                 THEN (engine \ AtPath(type, instance))
                         \cup {[type |-> type, instance |-> instance, idx |-> idx,
                                r |-> c.r]}
                 ELSE engine

\* the locked section of gateway_obj_deleted_callback;
\* lwm2m_engine_delete_obj_inst removes the instance at the path
GwObjDeletedLoopEngine(t) ==
    LET d == delete_nodes(node_list, loc[t].data_ptr - 1, 1, <<>>)
    IN
    /\ GwObjDeletedLoop(t)
    /\ engine' = {e \in engine :
                     \A k \in DOMAIN d.deletes : d.deletes[k] # <<e.type, e.instance>>}

\* the LwM2M server deletes an object instance of the engine
ServerDelete(e) ==
    /\ e \in engine
    /\ engine' = engine \ {e}
    /\ last' = [NoOp EXCEPT !.op = "server_delete", !.idx = e.idx]
    /\ UNCHANGED <<node_list, obj_agents, gw_inst, gw_data>>
    /\ UNCHANGED cvars

\* lcz_lwm2m_util_manage_obj_deletion, called for an instance that is not in
\* the engine
ManageObjDeletionEngine(status, type, idx, instance) ==
    /\ AtPath(type, instance) = {}
    /\ ManageObjDeletion(status, type, idx, instance)
    /\ UNCHANGED engine

NextEngine ==
    \/ \E a \in AgentPool : RegisterAgent(a) /\ UNCHANGED engine
    \/ \E s \in SensorsEngine :
          \E sr \in SetDataResultsOf(s[2]) :
             \E er \in EngineResultsOf(s[1], s[2], s[3], sr) :
                \E cr \in CbResultsOf(s[1], s[2], s[3], sr, er) :
                   ManageObjInstanceEngine(s[1], s[2], s[3], sr, er, cr)
    \/ \E type \in Types, idx \in IdxEngine, instance \in AckInstancesEngine :
          ManageObjDeletionEngine(-ENOENT, type, idx, instance)
    \/ \E idx \in IdxEngine : CbEntry(GwThread, idx) /\ UNCHANGED engine
    \/ CbInst(GwThread) /\ UNCHANGED engine
    \/ CbBase(GwThread) /\ UNCHANGED engine
    \/ GwObjDeletedLoopEngine(GwThread)
    \/ GwObjDeletedNotify(GwThread) /\ UNCHANGED engine
    \/ \E idx \in IdxEngine, b \in BaseIdsEngine : GwObjCreate(idx, b) /\ UNCHANGED engine
    \/ \E e \in engine : ServerDelete(e)

SpecEngine == Init /\ [][NextEngine]_vars

\* ------------------------------------------------------------------------
\* The operations run by threads, split at the mutex operations. The section an
\* operation runs between k_mutex_lock and k_mutex_unlock is one step: no other
\* thread accesses what it accesses while it holds the mutex.
\* ------------------------------------------------------------------------
\* the sensors managed and the indexes used under SpecConc
SensorsConc == {s \in Sensors : s[2] = 0}
IdxConc == {0}
\* the instances acknowledged and the statuses passed under SpecConc
AckInstancesConc == {0, 1}
StatusesConc == {-ENOENT}

\* the agents that exist in the application under SpecConc, and the number of
\* them that register
AgentPoolConc ==
    { [type |-> 1, create |-> TRUE, gw_obj_deleted |-> TRUE],
      [type |-> 0, create |-> FALSE, gw_obj_deleted |-> TRUE] }
MaxAgentsConc == 1

\* lcz_lwm2m_util_register_agent: k_mutex_lock
RgLock(t) ==
    /\ pc[t] = "idle"
    /\ Len(obj_agents) < MaxAgentsConc
    /\ mutex = 0
    /\ mutex' = t
    /\ Goto(t, "rg_locked")
    /\ UNCHANGED <<node_list, obj_agents, gw_inst, gw_data, last, loc>>

\* lcz_lwm2m_util_register_agent: sys_slist_append
RgAppend(t, agent) ==
    /\ pc[t] = "rg_locked"
    /\ \A k \in DOMAIN obj_agents : obj_agents[k] # agent
    /\ obj_agents' = Append(obj_agents, agent)
    /\ Goto(t, "rg_unlock")
    /\ UNCHANGED <<node_list, gw_inst, gw_data, last, mutex, loc>>

\* lcz_lwm2m_util_register_agent: k_mutex_unlock and return
RgUnlock(t) ==
    /\ pc[t] = "rg_unlock"
    /\ mutex' = 0
    /\ Goto(t, "idle")
    /\ UNCHANGED <<node_list, obj_agents, gw_inst, gw_data, last, loc>>

\* an entry of the operation that does not take the mutex
MiLock_no_mutex(t, type, idx, offset) ==
    /\ pc[t] = "idle"
    /\ Goto(t, "mi_locked")
    /\ loc' = [loc EXCEPT ![t] = [NoLocals EXCEPT !.type = type, !.idx = idx,
                                                   !.arg = offset]]
    /\ UNCHANGED <<node_list, obj_agents, gw_inst, gw_data, last, mutex>>

\* lcz_lwm2m_util_manage_obj_instance: k_mutex_lock
MiLock(t, type, idx, offset) ==
    /\ pc[t] = "idle"
    /\ mutex = 0
    /\ mutex' = t
    /\ Goto(t, "mi_locked")
    /\ loc' = [loc EXCEPT ![t] = [NoLocals EXCEPT !.type = type, !.idx = idx,
                                                   !.arg = offset]]
    /\ UNCHANGED <<node_list, obj_agents, gw_inst, gw_data, last>>

\* lcz_lwm2m_util_manage_obj_instance: the do-while block
MiBody(t, sr, er, cr) ==
    LET o == manage_obj_instance(node_list, obj_agents, gw_inst, gw_data,
                                 loc[t].type, loc[t].idx, loc[t].arg, sr, er, cr)
    IN
    /\ pc[t] = "mi_locked"
    /\ node_list' = o.lists
    /\ gw_data' = o.data
    /\ Goto(t, "mi_unlock")
    /\ UNCHANGED <<obj_agents, gw_inst, last, mutex, loc>>

\* a return that skips k_mutex_unlock when the index did not resolve
MiUnlock_not_on_error(t) ==
    /\ pc[t] = "mi_unlock"
    /\ mutex' = IF gw_inst[loc[t].idx] < 0 THEN mutex ELSE 0
    /\ Goto(t, "idle")
    /\ loc' = [loc EXCEPT ![t] = NoLocals]
    /\ UNCHANGED <<node_list, obj_agents, gw_inst, gw_data, last>>

\* lcz_lwm2m_util_manage_obj_instance: k_mutex_unlock and return
MiUnlock(t) ==
    /\ pc[t] = "mi_unlock"
    /\ mutex' = 0
    /\ Goto(t, "idle")
    /\ loc' = [loc EXCEPT ![t] = NoLocals]
    /\ UNCHANGED <<node_list, obj_agents, gw_inst, gw_data, last>>

\* lcz_lwm2m_util_manage_obj_deletion with a status that passes the test:
\* k_mutex_lock (with another status the call returns 0 and changes nothing)
MdLock(t, status, type, idx, instance) ==
    /\ pc[t] = "idle"
    /\ deletion_status(status)
    /\ mutex = 0
    /\ mutex' = t
    /\ Goto(t, "md_locked")
    /\ loc' = [loc EXCEPT ![t] = [NoLocals EXCEPT !.type = type, !.idx = idx,
                                                   !.arg = instance,
                                                   !.status = status]]
    /\ UNCHANGED <<node_list, obj_agents, gw_inst, gw_data, last>>

\* lcz_lwm2m_util_manage_obj_deletion: the do-while block
MdBody(t) ==
    LET o == manage_obj_deletion(node_list, gw_data, loc[t].status, loc[t].type,
                                 loc[t].idx, loc[t].arg)
    IN
    /\ pc[t] = "md_locked"
    /\ node_list' = o.lists
    /\ Goto(t, "md_unlock")
    /\ UNCHANGED <<obj_agents, gw_inst, gw_data, last, mutex, loc>>

\* lcz_lwm2m_util_manage_obj_deletion: k_mutex_unlock and return
MdUnlock(t) ==
    /\ pc[t] = "md_unlock"
    /\ mutex' = 0
    /\ Goto(t, "idle")
    /\ loc' = [loc EXCEPT ![t] = NoLocals]
    /\ UNCHANGED <<node_list, obj_agents, gw_inst, gw_data, last>>

\* gateway_obj_deleted_callback: k_mutex_lock
CbLock(t) ==
    /\ pc[t] = "cb_lock"
    /\ mutex = 0
    /\ mutex' = t
    /\ Goto(t, "cb_locked")
    /\ UNCHANGED <<node_list, obj_agents, gw_inst, gw_data, last, loc>>

\* gateway_obj_deleted_callback: the loop over the nodes
CbBody(t) ==
    /\ pc[t] = "cb_locked"
    /\ node_list' = delete_nodes(node_list, loc[t].data_ptr - 1, 1, <<>>).lists
    /\ Goto(t, "cb_unlock")
    /\ UNCHANGED <<obj_agents, gw_inst, gw_data, last, mutex, loc>>

\* a handler that goes on to the notification without releasing the mutex
CbUnlock_keeps_mutex(t) ==
    /\ pc[t] = "cb_unlock"
    /\ Goto(t, "cb_notify")
    /\ UNCHANGED <<node_list, obj_agents, gw_inst, gw_data, last, loc, mutex>>

\* gateway_obj_deleted_callback: k_mutex_unlock
CbUnlock(t) ==
    /\ pc[t] = "cb_unlock"
    /\ mutex' = 0
    /\ Goto(t, "cb_notify")
    /\ UNCHANGED <<node_list, obj_agents, gw_inst, gw_data, last, loc>>

\* gateway_obj_deleted_callback: gw_obj_deleted_handler and return
CbNotify(t) ==
    /\ pc[t] = "cb_notify"
    /\ CbReturn(t)
    /\ UNCHANGED <<node_list, obj_agents, last, mutex>>

\* the gateway creates the object instance of a device at a free index, while
\* it runs no gateway_obj_deleted_callback for the index
GwObjCreateConc(idx, b) ==
    /\ gw_inst[idx] < 0
    /\ \A j \in Idx : gw_inst[j] # b
    /\ \A u \in Threads : pc[u] \notin CallbackPcs \/ loc[u].idx # idx
    /\ gw_inst' = [gw_inst EXCEPT ![idx] = b]
    /\ UNCHANGED <<node_list, obj_agents, gw_data, last, mutex, pc, loc>>

\* the gateway gives the index of a device to another device without clearing
\* the attached data, while it runs no gateway_obj_deleted_callback for the index
GwObjReuseConc(idx, b) ==
    /\ gw_inst[idx] >= 0
    /\ \A j \in Idx : gw_inst[j] # b
    /\ \A u \in Threads : pc[u] \notin CallbackPcs \/ loc[u].idx # idx
    /\ gw_inst' = [gw_inst EXCEPT ![idx] = b]
    /\ UNCHANGED <<node_list, obj_agents, gw_data, last, mutex, pc, loc>>

NextConc ==
    \/ \E t \in Threads : RgLock(t) /\ UNCHANGED engine
    \/ \E t \in Threads, a \in AgentPoolConc : RgAppend(t, a) /\ UNCHANGED engine
    \/ \E t \in Threads : RgUnlock(t) /\ UNCHANGED engine
    \/ \E t \in Threads : CbInst(t) /\ UNCHANGED engine
    \/ \E idx \in IdxConc, b \in BaseIds : GwObjReuseConc(idx, b) /\ UNCHANGED engine
    \/ \E t \in Threads, s \in SensorsConc : MiLock(t, s[1], s[2], s[3])
       /\ UNCHANGED engine
    \/ \E t \in Threads :
          \E sr \in SetDataResultsOf(loc[t].idx) :
             \E er \in EngineResultsOf(loc[t].type, loc[t].idx, loc[t].arg, sr) :
                \E cr \in CbResultsOf(loc[t].type, loc[t].idx, loc[t].arg, sr, er) :
                   MiBody(t, sr, er, cr) /\ UNCHANGED engine
    \/ \E t \in Threads : MiUnlock(t) /\ UNCHANGED engine
    \/ \E t \in Threads, status \in StatusesConc, type \in Types, idx \in IdxConc,
          instance \in AckInstancesConc : MdLock(t, status, type, idx, instance)
             /\ UNCHANGED engine
    \/ \E t \in Threads : MdBody(t) /\ UNCHANGED engine
    \/ \E t \in Threads : MdUnlock(t) /\ UNCHANGED engine
    \/ \E t \in Threads, idx \in IdxConc : CbEntry(t, idx) /\ UNCHANGED engine
    \/ \E t \in Threads : CbBase(t) /\ UNCHANGED engine
    \/ \E t \in Threads : CbLock(t) /\ UNCHANGED engine
    \/ \E t \in Threads : CbBody(t) /\ UNCHANGED engine
    \/ \E t \in Threads : CbUnlock(t) /\ UNCHANGED engine
    \/ \E t \in Threads : CbNotify(t) /\ UNCHANGED engine
    \/ \E idx \in IdxConc, b \in BaseIds : GwObjCreateConc(idx, b) /\ UNCHANGED engine

SpecConc == Init /\ [][NextConc]_vars

\* ------------------------------------------------------------------------
\* The threads under a fair scheduler. A call that takes the mutex is split in
\* two: the call, after which the thread waits in k_mutex_lock(K_FOREVER), and
\* the acquisition of the mutex.
\* ------------------------------------------------------------------------
\* the places where a thread waits in k_mutex_lock
LockPcs == {"rg_lock", "mi_lock", "md_lock", "cb_lock"}

\* the threads inside lcz_lwm2m_util_register_agent
Registering == {u \in Threads : pc[u] \in {"rg_lock", "rg_locked", "rg_unlock"}}

\* the agents that exist in the application under SpecLive
AgentPoolLive == {[type |-> 1, create |-> TRUE, gw_obj_deleted |-> TRUE]}

\* a thread calls lcz_lwm2m_util_register_agent with an agent of the application
\* that no thread has registered or is registering
RgCall(t) ==
    /\ pc[t] = "idle"
    /\ Len(obj_agents) + Cardinality(Registering) < Cardinality(AgentPoolLive)
    /\ Goto(t, "rg_lock")
    /\ UNCHANGED <<node_list, obj_agents, gw_inst, gw_data, last, mutex, loc>>

\* k_mutex_lock(&utl.mutex, K_FOREVER) returns: the thread waiting at label
\* owns the mutex and goes on to the place after the call
Acquire(t, label, after) ==
    /\ pc[t] = label
    /\ mutex = 0
    /\ mutex' = t
    /\ Goto(t, after)
    /\ UNCHANGED <<node_list, obj_agents, gw_inst, gw_data, last, loc>>

\* a thread calls lcz_lwm2m_util_manage_obj_instance
MiCall(t, type, idx, offset) ==
    /\ pc[t] = "idle"
    /\ Goto(t, "mi_lock")
    /\ loc' = [loc EXCEPT ![t] = [NoLocals EXCEPT !.type = type, !.idx = idx,
                                                   !.arg = offset]]
    /\ UNCHANGED <<node_list, obj_agents, gw_inst, gw_data, last, mutex>>

\* a thread calls lcz_lwm2m_util_manage_obj_deletion with a status that passes
\* the test
MdCall(t, status, type, idx, instance) ==
    /\ pc[t] = "idle"
    /\ deletion_status(status)
    /\ Goto(t, "md_lock")
    /\ loc' = [loc EXCEPT ![t] = [NoLocals EXCEPT !.type = type, !.idx = idx,
                                                   !.arg = instance,
                                                   !.status = status]]
    /\ UNCHANGED <<node_list, obj_agents, gw_inst, gw_data, last, mutex>>

\* the sensors managed, the instances acknowledged, the base instances the
\* gateway gives to a free index and those it gives to an index in use under
\* SpecLive
SensorsLive == {<<1, 0, 0>>}
AckInstancesLive == {0}
BaseIdsLive == {0}
ReuseIdsLive == {1}

\* the calls and the steps of the gateway: nothing obliges them to happen
CallLive ==
    \/ \E t \in Threads : RgCall(t) /\ UNCHANGED engine
    \/ \E t \in Threads, s \in SensorsLive :
          MiCall(t, s[1], s[2], s[3]) /\ UNCHANGED engine
    \/ \E t \in Threads, status \in StatusesConc, s \in SensorsLive,
          instance \in AckInstancesLive :
             MdCall(t, status, s[1], s[2], instance) /\ UNCHANGED engine
    \/ \E t \in Threads, idx \in IdxConc : CbEntry(t, idx) /\ UNCHANGED engine
    \/ \E idx \in IdxConc, b \in BaseIdsLive :
          GwObjCreateConc(idx, b) /\ UNCHANGED engine
    \/ \E idx \in IdxConc, b \in ReuseIdsLive :
          GwObjReuseConc(idx, b) /\ UNCHANGED engine

\* thread t returns from k_mutex_lock
AcquireLive(t) ==
    \/ Acquire(t, "rg_lock", "rg_locked") /\ UNCHANGED engine
    \/ Acquire(t, "mi_lock", "mi_locked") /\ UNCHANGED engine
    \/ Acquire(t, "md_lock", "md_locked") /\ UNCHANGED engine
    \/ CbLock(t) /\ UNCHANGED engine

\* thread t runs the code of the operation it is in, up to the next mutex
\* operation or the return
RunLive(t) ==
    \/ \E a \in AgentPoolLive : RgAppend(t, a) /\ UNCHANGED engine
    \/ RgUnlock(t) /\ UNCHANGED engine
    \/ \E sr \in SetDataResultsOf(loc[t].idx) :
          \E er \in EngineResultsOf(loc[t].type, loc[t].idx, loc[t].arg, sr) :
             \E cr \in CbResultsOf(loc[t].type, loc[t].idx, loc[t].arg, sr, er) :
                MiBody(t, sr, er, cr) /\ UNCHANGED engine
    \/ MiUnlock(t) /\ UNCHANGED engine
    \/ MdBody(t) /\ UNCHANGED engine
    \/ MdUnlock(t) /\ UNCHANGED engine
    \/ CbInst(t) /\ UNCHANGED engine
    \/ CbBase(t) /\ UNCHANGED engine
    \/ CbBody(t) /\ UNCHANGED engine
    \/ CbUnlock(t) /\ UNCHANGED engine
    \/ CbNotify(t) /\ UNCHANGED engine

NextLive ==
    \/ CallLive
    \/ \E t \in Threads : AcquireLive(t)
    \/ \E t \in Threads : RunLive(t)

\* the scheduler runs every thread that can run, and k_mutex_lock(K_FOREVER)
\* returns to a thread that waits for a mutex that is unlocked again and again
FairLive ==
    \A t \in Threads :
       /\ WF_vars(RunLive(t))
       /\ SF_vars(AcquireLive(t))

SpecLive == Init /\ [][NextLive]_vars /\ FairLive

TypeOK ==
    /\ \A j \in Idx : \A i \in Slots :
          node_list[j].node[i].create_state \in {CREATE_ALLOW, CREATE_OK, CREATE_FAIL}
    /\ \A j \in Idx : gw_data[j] \in {NULL, j + 1}
    /\ mutex \in {0} \cup Threads
    /\ \A t \in Threads :
          pc[t] \in {"idle", "rg_locked", "rg_unlock", "mi_locked", "mi_unlock",
                     "md_locked", "md_unlock", "rg_lock", "mi_lock", "md_lock"}
                       \cup CallbackPcs

\* ------------------------------------------------------------------------
\* Properties
\* ------------------------------------------------------------------------
\* the inputs the properties quantify over
Offsets == {0, 1}

\* the index resolves and its attached node list records the resolved instance
Matched(idx) ==
    /\ gw_inst[idx] >= 0
    /\ gw_data[idx] # NULL
    /\ node_list[gw_data[idx] - 1].base_instance = gw_inst[idx]

\* node i of list j is in use (CREATE_OK or CREATE_FAIL)
InUse(lists, j, i) == lists[j].node[i].create_state # CREATE_ALLOW

\* node i of list j holds the pair while in state st
Holds(lists, j, i, type, instance, st) ==
    /\ lists[j].node[i].create_state = st
    /\ lists[j].node[i].type = type
    /\ lists[j].node[i].instance = instance

\* C1: idempotence of lcz_lwm2m_util_manage_obj_instance. In every reachable
\* state, when a call succeeds (returns the instance, its node CREATE_OK), the same
\* call made next returns the same instance, makes no engine create call (so the
\* two calls make at most the one of the first), calls no create callback and
\* changes no node and no attached data, whatever the collaborators would answer.
C1_Idempotent ==
    \A type \in Types, idx \in Idx, offset \in Offsets :
      \A sr \in SetDataResultsOf(idx) :
      \A er \in EngineResultsOf(type, idx, offset, sr) :
      \A cr \in CbResultsOf(type, idx, offset, sr, er) :
        LET o1 == manage_obj_instance(node_list, obj_agents, gw_inst, gw_data,
                                      type, idx, offset, sr, er, cr)
        IN ManageSucceeded(o1.lists, gw_inst, o1.data, type, idx, offset, o1.r) =>
           /\ Len(o1.creates) <= 1
           /\ \A sr2 \in SetDataResults, er2 \in EngineResults, cr2 \in CbResults :
                LET o2 == manage_obj_instance(o1.lists, obj_agents, gw_inst, o1.data,
                                              type, idx, offset, sr2, er2, cr2)
                IN /\ o2.r = o1.r
                   /\ o2.creates = <<>>
                   /\ o2.cbs = <<>>
                   /\ o2.lists = o1.lists
                   /\ o2.data = o1.data

\* a manage call has returned an instance without calling the engine: the
\* repeated call of an instance created before
C1_Witness ==
    /\ last.op = "manage"
    /\ last.ret >= 0
    /\ last.calls = 0
    /\ Matched(last.idx)
    /\ \E i \in Slots :
          /\ node_list[last.idx].node[i].create_state = CREATE_OK
          /\ node_list[last.idx].node[i].instance = U16(last.ret)

\* C2: uniqueness. In every reachable state no two nodes of one list hold the
\* same (type, instance) while both are in use.
C2_Unique ==
    \A j \in Idx : \A a \in Slots, b \in Slots :
        (a # b /\ InUse(node_list, j, a) /\ InUse(node_list, j, b)) =>
            \/ node_list[j].node[a].type # node_list[j].node[b].type
            \/ node_list[j].node[a].instance # node_list[j].node[b].instance

\* C3: capacity. When every node of the list of a matched index is CREATE_OK and
\* none holds the requested pair, the manage call returns -ENOMEM, calls neither
\* the engine nor a callback and changes nothing.
C3_Capacity ==
    \A type \in Types, idx \in Idx, offset \in Offsets :
      \A sr \in SetDataResults, er \in EngineResults, cr \in CbResults :
        ( /\ Matched(idx)
          /\ \A i \in Slots : node_list[idx].node[i].create_state = CREATE_OK
          /\ \A i \in Slots :
               ~Holds(node_list, idx, i, type, U16(gw_inst[idx] + offset), CREATE_OK) )
        => LET o == manage_obj_instance(node_list, obj_agents, gw_inst, gw_data,
                                        type, idx, offset, sr, er, cr)
           IN /\ o.r = -ENOMEM
              /\ o.creates = <<>>
              /\ o.cbs = <<>>
              /\ o.lists = node_list
              /\ o.data = gw_data

\* a manage call on a list full of created instances has returned -ENOMEM
C3_Witness ==
    /\ last.op = "manage"
    /\ last.ret = -ENOMEM
    /\ last.calls = 0
    /\ Matched(last.idx)
    /\ \A i \in Slots : node_list[last.idx].node[i].create_state = CREATE_OK
    /\ \A a \in Slots, b \in Slots :
          a # b => node_list[last.idx].node[a] # node_list[last.idx].node[b]

\* C4: sticky failure. When a node of the list of a matched index holds the
\* requested pair in state CREATE_FAIL, the manage call returns -ENOMEM without
\* calling the engine, and the node stays CREATE_FAIL.
C4_Sticky ==
    \A type \in Types, idx \in Idx, offset \in Offsets :
      \A sr \in SetDataResults, er \in EngineResults, cr \in CbResults :
        \A i \in Slots :
          ( /\ Matched(idx)
            /\ Holds(node_list, idx, i, type, U16(gw_inst[idx] + offset), CREATE_FAIL) )
          => LET o == manage_obj_instance(node_list, obj_agents, gw_inst, gw_data,
                                          type, idx, offset, sr, er, cr)
             IN /\ o.r = -ENOMEM
                /\ o.creates = <<>>
                /\ o.lists[idx].node[i].create_state = CREATE_FAIL

\* the nodes of list j that are CREATE_OK and hold the pair p
OkNodes(lists, j, p) ==
    {i \in Slots : Holds(lists, j, i, p[1], p[2], CREATE_OK)}

\* the engine delete calls made for the pair p
CallsFor(calls, p) == {k \in DOMAIN calls : calls[k] = p}

\* C5: cascading deletion. When gateway_obj_deleted_callback runs for an index
\* that passes its checks, it makes one engine delete call, with the node's type
\* and instance, for each node of the list that was CREATE_OK, and no other; and
\* it leaves every node of the list CREATE_ALLOW.
C5_Cascade ==
    \A idx \in Idx :
      deleted_callback_checks(node_list, gw_inst, idx, gw_data[idx]) =>
        LET j == gw_data[idx] - 1
            o == gateway_obj_deleted_callback(node_list, obj_agents, gw_inst, idx,
                                              gw_data[idx])
        IN /\ \A k \in DOMAIN o.deletes :
                 OkNodes(node_list, j, o.deletes[k]) # {}
           /\ \A i \in Slots :
                 node_list[j].node[i].create_state = CREATE_OK =>
                    LET p == <<node_list[j].node[i].type, node_list[j].node[i].instance>>
                    IN Cardinality(CallsFor(o.deletes, p))
                          = Cardinality(OkNodes(node_list, j, p))
           /\ \A i \in Slots : o.lists[j].node[i] = EmptyNode

\* the callback has deleted the created instances of a list, which is now empty
C5_Witness ==
    /\ last.op = "gw_deleted"
    /\ last.ret = 1
    /\ last.calls >= 1
    /\ \A i \in Slots : node_list[last.idx].node[i] = EmptyNode

\* C6: global recovery. When the callback runs for an index that passes its
\* checks, every node of any list that was CREATE_FAIL with the type of a node
\* that was CREATE_OK in the deleted list is CREATE_ALLOW afterwards.
C6_Recovery ==
    \A idx \in Idx :
      deleted_callback_checks(node_list, gw_inst, idx, gw_data[idx]) =>
        LET j == gw_data[idx] - 1
            o == gateway_obj_deleted_callback(node_list, obj_agents, gw_inst, idx,
                                              gw_data[idx])
        IN \A i \in Slots : node_list[j].node[i].create_state = CREATE_OK =>
              \A j2 \in Idx, i2 \in Slots :
                 ( /\ node_list[j2].node[i2].create_state = CREATE_FAIL
                   /\ node_list[j2].node[i2].type = node_list[j].node[i].type )
                 => o.lists[j2].node[i2].create_state = CREATE_ALLOW

\* the callback has reset a failed node of another list
C6_Witness ==
    /\ last.op = "gw_deleted"
    /\ last.ret = 1
    /\ last.calls >= 1
    /\ last.swept >= 1

\* C7: mismatch safety. When the list attached to a resolved index records another
\* base instance than the gateway resolves, the manage call returns -EPERM, calls
\* neither the engine nor a callback, and changes no list (recorded base instance
\* and nodes) and no attached data.
C7_Mismatch ==
    \A type \in Types, idx \in Idx, offset \in Offsets :
      \A sr \in SetDataResults, er \in EngineResults, cr \in CbResults :
        ( /\ gw_inst[idx] >= 0
          /\ gw_data[idx] # NULL
          /\ node_list[gw_data[idx] - 1].base_instance # gw_inst[idx] )
        => LET o == manage_obj_instance(node_list, obj_agents, gw_inst, gw_data,
                                        type, idx, offset, sr, er, cr)
           IN /\ o.r = -EPERM
              /\ o.creates = <<>>
              /\ o.cbs = <<>>
              /\ o.lists = node_list
              /\ o.data = gw_data

\* a manage call has returned -EPERM for an index whose attached list, with a
\* node in use, records the base instance of the device that had the index before
C7_Witness ==
    /\ last.op = "manage"
    /\ last.ret = -EPERM
    /\ last.calls = 0
    /\ gw_inst[last.idx] >= 0
    /\ gw_data[last.idx] # NULL
    /\ node_list[last.idx].base_instance # gw_inst[last.idx]
    /\ \E i \in Slots : InUse(node_list, last.idx, i)

\* C8 as claimed: with every status other than -ENOENT, also -EEXIST, the deletion
\* call returns 0 and changes no node.
C8_OnlyNoEnt ==
    (last.op = "deletion" /\ last.status # -ENOENT) =>
        (last.ret = 0 /\ last.resets = 0)

\* statuses that are neither -ENOENT nor -EEXIST
OtherStatuses == {0, 1, -EPERM, -EIO, -ENOMEM, -EINVAL}

\* C8 as amended: with every status other than -ENOENT and -EEXIST the deletion
\* call returns 0 and changes no node; with -EEXIST it does what it does with
\* -ENOENT.
C8_StatusFilter ==
    \A type \in Types, idx \in Idx, instance \in AckInstances :
      /\ \A status \in (Statuses \cup OtherStatuses) \ {-ENOENT, -EEXIST} :
           LET o == manage_obj_deletion(node_list, gw_data, status, type, idx, instance)
           IN o.r = 0 /\ o.lists = node_list /\ o.data = gw_data
      /\ manage_obj_deletion(node_list, gw_data, -EEXIST, type, idx, instance)
            = manage_obj_deletion(node_list, gw_data, -ENOENT, type, idx, instance)

\* a deletion call with status -EEXIST has reset a node
C8_Witness ==
    /\ last.op = "deletion"
    /\ last.status = -EEXIST
    /\ last.ret = 0
    /\ last.resets = 1

\* C9: the deletion call resets only the node it finds. When a deletion call with
\* status -ENOENT finds a node with the type and instance, it returns 0, makes no
\* engine call, leaves that node CREATE_ALLOW with type and instance 0 and changes
\* no other node of any list; and the manage call for that type, index and
\* instance that follows on a matched index calls the engine's create once.
C9_ResetsOne ==
    \A type \in Types, idx \in Idx, instance \in AckInstances :
      LET p == gw_data[idx]
          n == find_node(node_list[p - 1], type, instance)
          o == manage_obj_deletion(node_list, gw_data, -ENOENT, type, idx, instance)
      IN (p # NULL /\ n # NULL) =>
         /\ o.r = 0
         /\ o.creates = <<>>
         /\ o.data = gw_data
         /\ o.lists[p - 1].node[n] = EmptyNode
         /\ \A j \in Idx :
              /\ o.lists[j].base_instance = node_list[j].base_instance
              /\ \A i \in Slots :
                   (j # p - 1 \/ i # n) => o.lists[j].node[i] = node_list[j].node[i]
         /\ \A offset \in Offsets :
              (Matched(idx) /\ U16(gw_inst[idx] + offset) = instance) =>
                \A sr \in SetDataResults, er \in EngineResults, cr \in CbResults :
                   manage_obj_instance(o.lists, obj_agents, gw_inst, o.data,
                                       type, idx, offset, sr, er, cr).creates
                      = <<<<type, instance>>>>

\* a deletion call with status -ENOENT has reset one node of a list that has
\* another node in use
C9_Witness ==
    /\ last.op = "deletion"
    /\ last.status = -ENOENT
    /\ last.ret = 0
    /\ last.resets = 1
    /\ \E i \in Slots : InUse(node_list, last.idx, i)
    /\ \E i \in Slots : node_list[last.idx].node[i] = EmptyNode

\* C11: the return value of lcz_lwm2m_util_manage_obj_instance. In every
\* reachable state, whatever the engine and the agent's create callback return,
\* a call that returns a non-negative value returns the target instance (the
\* resolved base instance plus the offset) and leaves a node of the attached
\* list holding the type and that instance in state CREATE_OK.
C11_ReturnValue ==
    \A type \in Types, idx \in Idx, offset \in Offsets :
      \A sr \in SetDataResults, er \in EngineResults, cr \in CbResults :
        LET o == manage_obj_instance(node_list, obj_agents, gw_inst, gw_data,
                                     type, idx, offset, sr, er, cr)
        IN o.r >= 0 =>
             /\ o.r = gw_inst[idx] + offset
             /\ o.data[idx] # NULL
             /\ \E i \in Slots :
                   Holds(o.lists, o.data[idx] - 1, i, type, U16(o.r), CREATE_OK)

\* C12: NotFound of lcz_lwm2m_util_manage_obj_deletion. In every reachable
\* state a call with status -ENOENT for an index that has no attached list, or
\* whose list has no node in use holding the type and instance, returns -ENOENT
\* and changes no node: an empty node is never the matching one.
C12_NotFound ==
    \A type \in Types, idx \in Idx, instance \in AckInstances :
      ( \/ gw_data[idx] = NULL
        \/ \A i \in Slots :
              ~( /\ InUse(node_list, gw_data[idx] - 1, i)
                 /\ node_list[gw_data[idx] - 1].node[i].type = type
                 /\ node_list[gw_data[idx] - 1].node[i].instance = instance ) )
      => LET o == manage_obj_deletion(node_list, gw_data, -ENOENT, type, idx, instance)
         IN o.r = -ENOENT /\ o.lists = node_list

\* C18: instance id arithmetic. In every reachable state, for every base
\* instance and offset, a manage call that succeeds (it returns a non-negative
\* value and leaves the node of the type and target instance CREATE_OK) returns
\* the base instance plus the offset, and that value is the instance of the
\* node and the instance passed to the engine's create and to the create
\* callback.
C18_Arithmetic ==
    \A type \in Types, idx \in Idx, offset \in Offsets :
      \A sr \in SetDataResults, er \in EngineResults, cr \in CbResults :
        LET o == manage_obj_instance(node_list, obj_agents, gw_inst, gw_data,
                                     type, idx, offset, sr, er, cr)
        IN ( /\ o.r >= 0
             /\ o.data[idx] # NULL
             /\ \E i \in Slots :
                   Holds(o.lists, o.data[idx] - 1, i, type,
                         U16(gw_inst[idx] + offset), CREATE_OK) )
           => /\ o.r = gw_inst[idx] + offset
              /\ \E i \in Slots :
                    Holds(o.lists, o.data[idx] - 1, i, type, o.r, CREATE_OK)
              /\ \A k \in DOMAIN o.creates : o.creates[k] = <<type, o.r>>
              /\ \A k \in DOMAIN o.cbs : o.cbs[k][4] = o.r

\* C13: the unmanaged create. In every reachable state, for every type and
\* instance: below the reserved offset lcz_lwm2m_util_create_obj_inst returns
\* -EINVAL and calls neither the engine nor a callback; at or above it, it calls
\* the engine's create once for the type and instance and, when the engine
\* succeeds, calls the create callback of the agent the dispatch selects with
\* index -1; and the step changes no node list and no attached data.
C13_Unmanaged ==
    /\ [](\A type \in Types, instance \in CreateInstances :
          \A er \in EngineResults, cr \in CbResults :
            LET c == lcz_lwm2m_util_create_obj_inst(obj_agents, type, instance, er, cr)
                a == creation_agent(obj_agents, type)
            IN IF instance < LEGACY_INST_OFFSET
               THEN c.r = -EINVAL /\ c.creates = <<>> /\ c.cbs = <<>>
               ELSE /\ c.creates = <<<<type, instance>>>>
                    /\ er < 0 => (c.cbs = <<>> /\ c.r = er)
                    /\ (er = 0 /\ a # 0) =>
                          (c.cbs = <<<<a, -1, type, instance>>>> /\ c.r = cr)
                    /\ (er = 0 /\ a = 0) => (c.cbs = <<>> /\ c.r = 0))
    /\ [][(last'.op = "create" /\ pc' = pc) =>
             /\ node_list' = node_list
             /\ gw_data' = gw_data
             /\ gw_inst' = gw_inst]_vars

\* an unmanaged create of the first instance outside the reserved range has
\* called the engine and an agent's create callback while a node list has a
\* node in use
C13_Witness ==
    /\ last.op = "create"
    /\ last.idx = -1
    /\ last.ret = 0
    /\ last.calls = 1
    /\ last.cb # 0
    /\ \E j \in Idx, i \in Slots : InUse(node_list, j, i)

\* the agents of the type that have a create callback, as indexes of the registry
CreateAgents(type) ==
    {k \in DOMAIN obj_agents : obj_agents[k].type = type /\ obj_agents[k].create}

\* C15: creation dispatch. In every reachable registry, for a create of either
\* kind (idx -1 or the index of a device): no create callback is called when the
\* engine's create fails; otherwise exactly one is called, that of the first
\* registered agent of the created type that has a create callback, and the
\* result is the callback's; when there is no such agent none is called and the
\* result is 0. An agent of another type is never called.
C15_CreateDispatch ==
    \A type \in Types, idx \in {-1} \cup Idx, instance \in CreateInstances :
      \A er \in EngineResults, cr \in CbResults :
        LET c == create_obj_inst(obj_agents, idx, type, instance, er, cr)
        IN /\ er < 0 => c.cbs = <<>>
           /\ (er = 0 /\ CreateAgents(type) = {}) => (c.cbs = <<>> /\ c.r = 0)
           /\ (er = 0 /\ CreateAgents(type) # {}) =>
                 /\ Len(c.cbs) = 1
                 /\ c.cbs[1][1] \in CreateAgents(type)
                 /\ \A k \in CreateAgents(type) : c.cbs[1][1] <= k
                 /\ c.cbs[1] = <<c.cbs[1][1], idx, type, instance>>
                 /\ c.r = cr
           /\ \A k \in DOMAIN c.cbs : obj_agents[c.cbs[k][1]].type = type

\* a create has called the create callback of the second registered agent: the
\* first one is of the type but has no create callback, and the third one is of
\* the type and has one
C15_Witness ==
    /\ last.op = "create"
    /\ last.calls = 1
    /\ last.cb = 2
    /\ Len(obj_agents) = 3
    /\ obj_agents[1].type = obj_agents[2].type
    /\ ~obj_agents[1].create
    /\ obj_agents[3].type = obj_agents[2].type
    /\ obj_agents[3].create

\* the agents that have a gw_obj_deleted callback, as indexes of the registry
GwDeletedAgents == {k \in DOMAIN obj_agents : obj_agents[k].gw_obj_deleted}

\* C16: gateway-deleted dispatch. In every reachable state a cascading deletion
\* that passes its checks notifies one agent, the first registered one that has
\* a gw_obj_deleted callback, whatever its type, and none when no agent has the
\* callback; one that does not pass notifies none.
C16_GwDeletedDispatch ==
    \A idx \in Idx, data_ptr \in {NULL} \cup {j + 1 : j \in Idx} :
      LET o == gateway_obj_deleted_callback(node_list, obj_agents, gw_inst, idx,
                                            data_ptr)
      IN IF ~deleted_callback_checks(node_list, gw_inst, idx, data_ptr)
         THEN o.notify = 0
         ELSE /\ GwDeletedAgents = {} => o.notify = 0
              /\ GwDeletedAgents # {} =>
                    /\ o.notify \in GwDeletedAgents
                    /\ \A k \in GwDeletedAgents : o.notify <= k

\* a cascading deletion that passed its checks has notified the second
\* registered agent while the third one, of another type, has a gw_obj_deleted
\* callback too
C16_Witness ==
    /\ last.op = "gw_notified"
    /\ last.ret = 1
    /\ last.notify = 2
    /\ Len(obj_agents) = 3
    /\ obj_agents[3].gw_obj_deleted
    /\ obj_agents[2].type # obj_agents[3].type

\* the places from which the next step of a thread reads or writes the nodes of
\* a list, and those from which it releases the mutex
LockedPcs == {"mi_locked", "md_locked", "cb_locked"}
UnlockPcs == {"mi_unlock", "md_unlock", "cb_unlock"}

\* C10 as stated: every access of a slot table happens while holding the lock.
\* A thread whose next step reads or writes a node list, the recorded base
\* instance included, holds the mutex.
C10_AllUnderLock ==
    \A t \in Threads : pc[t] \in LockedPcs \cup {"cb_base"} => mutex = t

\* C10, amended: every write of a slot table and every read of its slots
\* happens while holding the lock, and the locked sections of two operations
\* never overlap; the one access made without the lock is the cascading-deletion
\* handler's read of the list's recorded base instance, and what it read still
\* holds when its loop runs under the lock.
C10_LockedAccess ==
    /\ [](\A t \in Threads : pc[t] \in LockedPcs \cup UnlockPcs => mutex = t)
    /\ [](\A t \in Threads :
            pc[t] = "cb_locked" =>
               deleted_callback_checks(node_list, gw_inst, loc[t].idx, loc[t].data_ptr))
    /\ [][node_list' # node_list =>
             /\ mutex \in Threads
             /\ pc[mutex] \in LockedPcs
             /\ pc'[mutex] \in UnlockPcs
             /\ mutex' = mutex
             /\ \A u \in Threads \ {mutex} : pc'[u] = pc[u]]_vars

\* a thread is about to read the recorded base instance of a list that has a
\* node in use, without the mutex, while the other thread holds the mutex in
\* the locked section of a manage call
C10_Witness ==
    \E t \in Threads, u \in Threads :
       /\ pc[t] = "cb_base"
       /\ pc[u] = "mi_locked"
       /\ mutex = u
       /\ \E i \in Slots : InUse(node_list, loc[t].data_ptr - 1, i)

\* the places of a thread in gateway_obj_deleted_callback after its three tests
AfterTestsPcs == {"cb_lock", "cb_locked", "cb_unlock", "cb_notify"}

\* C14: the callbacks and the mutex. Every step of a manage call in which the
\* create callback of an agent is called is taken by the thread that holds the
\* mutex, which it still holds after the step; a thread about to call
\* gw_obj_deleted_handler does not hold the mutex, it has come there by
\* releasing the mutex, and it had come to the release by the loop that left
\* every node of the deleted list reset.
C14_CallbackOrder ==
    /\ [][\A t \in Threads :
            (pc[t] = "mi_locked" /\ pc'[t] = "mi_unlock") =>
            \A sr \in SetDataResults, er \in EngineResults, cr \in CbResults :
              LET o == manage_obj_instance(node_list, obj_agents, gw_inst, gw_data,
                                           loc[t].type, loc[t].idx, loc[t].arg,
                                           sr, er, cr)
              IN (o.cbs # <<>> /\ node_list' = o.lists /\ gw_data' = o.data)
                 => (mutex = t /\ mutex' = t)]_vars
    /\ [](\A t \in Threads : pc[t] = "cb_notify" => mutex # t)
    /\ [][\A t \in Threads :
            (pc'[t] = "cb_notify" /\ pc[t] # "cb_notify") =>
               (pc[t] = "cb_unlock" /\ mutex = t /\ mutex' = 0)]_vars
    /\ [][\A t \in Threads :
            (pc'[t] = "cb_unlock" /\ pc[t] # "cb_unlock") =>
               /\ pc[t] = "cb_locked"
               /\ \A i \in Slots :
                     node_list'[loc[t].data_ptr - 1].node[i] = EmptyNode]_vars

\* a thread is about to notify the registered agent that has a gw_obj_deleted
\* callback, while the other thread holds the mutex in a manage call for the
\* type of that agent, which has a create callback too
C14_Witness ==
    \E t \in Threads, u \in Threads :
       /\ pc[t] = "cb_notify"
       /\ gw_obj_deleted_agent(obj_agents) # 0
       /\ pc[u] = "mi_locked"
       /\ mutex = u
       /\ creation_agent(obj_agents, loc[u].type) # 0

\* C17: the silent paths of gateway_obj_deleted_callback. A call for an index
\* that does not resolve, or with a NULL data pointer, or whose node list
\* records another base instance than the resolved one, deletes nothing, changes
\* no node, notifies no agent, and returns from its tests without taking the
\* mutex: a thread that is past the tests has seen all three pass.
C17_SilentPaths ==
    /\ [](\A idx \in Idx, data_ptr \in {NULL} \cup {j + 1 : j \in Idx} :
            ~deleted_callback_checks(node_list, gw_inst, idx, data_ptr) =>
               LET o == gateway_obj_deleted_callback(node_list, obj_agents, gw_inst,
                                                     idx, data_ptr)
               IN o.lists = node_list /\ o.deletes = <<>> /\ o.notify = 0)
    /\ [](\A t \in Threads :
            /\ pc[t] \in {"cb_base"} \cup AfterTestsPcs =>
                  (loc[t].arg >= 0 /\ loc[t].data_ptr # NULL)
            /\ pc[t] \in AfterTestsPcs =>
                  node_list[loc[t].data_ptr - 1].base_instance = loc[t].arg)
    /\ [][\A t \in Threads :
            ( \/ /\ pc[t] = "cb_inst"
                 /\ pc'[t] # "cb_inst"
                 /\ (gw_inst[loc[t].idx] < 0 \/ loc[t].data_ptr = NULL)
              \/ /\ pc[t] = "cb_base"
                 /\ pc'[t] # "cb_base"
                 /\ node_list[loc[t].data_ptr - 1].base_instance # loc[t].arg )
            => /\ pc'[t] = "idle"
               /\ node_list' = node_list
               /\ mutex' = mutex
               /\ mutex # t]_vars

\* a thread is about to test the base instance of a node list that has a node
\* in use and records another base instance than the one resolved, while an
\* agent with a gw_obj_deleted callback is registered
C17_Witness ==
    \E t \in Threads :
       /\ pc[t] = "cb_base"
       /\ node_list[loc[t].data_ptr - 1].base_instance # loc[t].arg
       /\ \E i \in Slots : InUse(node_list, loc[t].data_ptr - 1, i)
       /\ gw_obj_deleted_agent(obj_agents) # 0

\* the types of the nodes of list j that are CREATE_OK
OkTypes(lists, j) ==
    {lists[j].node[i].type : i \in {q \in Slots : lists[j].node[q].create_state = CREATE_OK}}

\* the nodes of the lists other than j that the deletion of list j must leave:
\* those CREATE_OK or CREATE_ALLOW, and those CREATE_FAIL of a type that no
\* CREATE_OK node of list j has
FrameOfOthers(lists, after, j) ==
    \A k \in Idx \ {j} : \A i \in Slots :
       LET n == lists[k].node[i]
       IN ( \/ n.create_state \in {CREATE_OK, CREATE_ALLOW}
            \/ n.type \notin OkTypes(lists, j) )
          => after[k].node[i] = n

\* C19 as claimed: a cascading deletion that passes its checks leaves, in the
\* other lists, every node CREATE_OK or CREATE_ALLOW and every node CREATE_FAIL
\* of a type that no CREATE_OK node of the deleted list has, and deletes no
\* instance that a CREATE_OK node of another list records.
C19_Frame ==
    \A idx \in Idx :
      deleted_callback_checks(node_list, gw_inst, idx, gw_data[idx]) =>
        LET j == gw_data[idx] - 1
            o == gateway_obj_deleted_callback(node_list, obj_agents, gw_inst, idx,
                                              gw_data[idx])
        IN /\ FrameOfOthers(node_list, o.lists, j)
           /\ \A d \in DOMAIN o.deletes :
                 \A k \in Idx \ {j} : \A i \in Slots :
                    ~Holds(node_list, k, i, o.deletes[d][1], o.deletes[d][2], CREATE_OK)

\* C19 as amended: the same frame of the nodes of the other lists; and every
\* engine delete call is made for a CREATE_OK node of the deleted list, with its
\* type and instance, whether or not a node of another list records the same
\* type and instance.
C19_FrameOfSlots ==
    \A idx \in Idx :
      deleted_callback_checks(node_list, gw_inst, idx, gw_data[idx]) =>
        LET j == gw_data[idx] - 1
            o == gateway_obj_deleted_callback(node_list, obj_agents, gw_inst, idx,
                                              gw_data[idx])
        IN /\ FrameOfOthers(node_list, o.lists, j)
           /\ \A d \in DOMAIN o.deletes :
                 \E i \in Slots :
                    Holds(node_list, j, i, o.deletes[d][1], o.deletes[d][2], CREATE_OK)
           /\ Len(o.deletes) =
                 Cardinality({i \in Slots : node_list[j].node[i].create_state = CREATE_OK})

\* a cascading deletion has deleted an instance while another list has a node
\* CREATE_OK and a node CREATE_FAIL
C19_Witness ==
    /\ last.op = "gw_deleted"
    /\ last.ret = 1
    /\ last.calls >= 1
    /\ \E k \in Idx \ {last.idx} :
          /\ \E i \in Slots : node_list[k].node[i].create_state = CREATE_OK
          /\ \E i \in Slots : node_list[k].node[i].create_state = CREATE_FAIL

\* the instance of the engine is recorded by a CREATE_OK node of the list
\* attached to the index it was created for
Recorded(e) ==
    /\ gw_data[e.idx] # NULL
    /\ \E i \in Slots :
          Holds(node_list, gw_data[e.idx] - 1, i, e.type, e.instance, CREATE_OK)

\* C20: no orphaned engine instances. When deletions are acknowledged only for
\* instances that are not in the engine, every instance that a manage call
\* created in the engine and that is still there is recorded by a CREATE_OK node
\* of the list attached to its index, whatever the create callback returned (so
\* that none is left once the cascading deletion of the index has completed).
C20_NoOrphans == \A e \in engine : Recorded(e)

\* the places where a thread owns the mutex
OwnerPcs == {"rg_locked", "rg_unlock", "mi_locked", "mi_unlock", "md_locked",
             "md_unlock", "cb_locked", "cb_unlock"}

\* C21: lock release on every path. The mutex is owned only by a thread between
\* the k_mutex_lock and the k_mutex_unlock of the operation it runs; every
\* operation that took the mutex releases it in the step in which it returns,
\* whatever path its body took, so the mutex is free whenever no operation is in
\* progress; and under fair scheduling, with callbacks that do not call the
\* manager, every operation a thread has started returns.
C21_LockRelease ==
    /\ [](\A t \in Threads : mutex = t => pc[t] \in OwnerPcs)
    /\ []((\A t \in Threads : pc[t] = "idle") => mutex = 0)
    /\ [][\A t \in Threads :
             (pc[t] \in {"mi_locked", "md_locked"} /\ pc'[t] # pc[t])
                => (pc'[t] \in {"mi_unlock", "md_unlock"} /\ mutex' = t)]_vars
    /\ [][\A t \in Threads :
             (pc[t] \in OwnerPcs /\ pc'[t] \notin OwnerPcs)
                => (mutex = t /\ mutex' = 0)]_vars
    /\ \A t \in Threads : (pc[t] # "idle") ~> (pc[t] = "idle")

\* a thread is about to release the mutex after lcz_lwm2m_util_manage_obj_instance
\* failed on an index that does not resolve, while the other thread waits in
\* k_mutex_lock
C21_Witness ==
    \E t \in Threads, u \in Threads :
       /\ pc[t] = "mi_unlock"
       /\ mutex = t
       /\ gw_inst[loc[t].idx] < 0
       /\ pc[u] \in LockPcs

====
